---- MODULE Spec2Model ----
(***************************************************************************)
(* Model of src/src/parse_docx.py: the dialect router parse_docx, the two  *)
(* dialect parsers parse_tabular_format and parse_takebar_format, and the  *)
(* record normalizer adapt_data.                                           *)
(*                                                                         *)
(* Text is modelled at character level: a string is a sequence of          *)
(* one-character strings.  Characters outside ASCII are written as         *)
(* entity names ("&Uuml;" is the single character U-umlaut, "&nbsp;" is    *)
(* \xa0, "&lsaquo;" the marker of line 197, "&grave;" the backtick).       *)
(*                                                                         *)
(* A document text is a sequence of timecode tokens, each on a line of its *)
(* own, with text lines between them.  The kinds of the timecode tokens    *)
(* are fixed by Init; the lines of a segment are drawn when the parser's   *)
(* for-loop reaches the segment (the parsers read the segments once, left  *)
(* to right).  The text of the j-th timecode of the body is identified     *)
(* with its ordinal j, so document order is the order of the integers;     *)
(* the text "(null)" is NullTc.                                            *)
(***************************************************************************)
EXTENDS Integers, Sequences, FiniteSets, TLC

VARIABLES
    pc,           \* position in the program
    anchor,       \* what the first table gives as first_table_text
    text,         \* timecode tokens of the document text, in order
    cut,          \* number of timecode tokens of text before the anchor
    body_text,    \* timecode tokens of body_text (Unbound when never assigned)
    success,      \* parse_docx: success
    timestamps,   \* both parsers: timestamps
    nseg,         \* both parsers: len(match)
    k,            \* both parsers: number of elements of match already iterated
    i,            \* both parsers: i (0-based index into timestamps)
    m,            \* both parsers: m, as m.splitlines()
    line,         \* both parsers: line
    start,        \* tabular: start; takebar: t0
    end,          \* tabular: end;   takebar: t1
    speaker,      \* both parsers: speaker (Unbound before the first assignment)
    take_num,     \* both parsers: take_num (Unbound before the first assignment)
    in_kopierer,  \* takebar: in_kopierer
    in_atake,     \* takebar: in_atake
    data,         \* both parsers: data; adapt_data: the raw records
    printed,      \* number of "Something went wrong" lines written to stdout
    status,       \* status returned by the dialect parser / by parse_docx
    res,          \* table returned by parse_docx (when hasRes)
    hasRes,       \* FALSE: parse_docx returned None as table
    df,           \* adapt_data: rows of df written so far
    row           \* adapt_data: number of rows iterated

vars == <<pc, anchor, text, cut, body_text, success, timestamps, nseg, k, i, m,
          line, start, end, speaker, take_num, in_kopierer, in_atake, data,
          printed, status, res, hasRes, df, row>>

parseVars == <<anchor, text, cut, body_text, success, timestamps, nseg, k, i, m,
               line, start, end, speaker, take_num, in_kopierer, in_atake,
               printed, status, res, hasRes>>

-----------------------------------------------------------------------------
(* Bounds of the model. *)

\* at most this many timecode tokens in a text without "tc - tc" ranges
MaxTc == 4
\* at most this many range tokens in a text with ranges
MaxRanges == 2
\* at most this many raw records handed to adapt_data
MaxRows == 2

-----------------------------------------------------------------------------
(* Strings. *)

Unbound == <<"<unbound>">>

Last(s) == s[Len(s)]
ButLast(s) == SubSeq(s, 1, Len(s) - 1)
\* Python s[n:] for a list or a string, n >= 0
From(s, n) == SubSeq(s, n + 1, Len(s))

StartsWith(s, p) == Len(s) >= Len(p) /\ SubSeq(s, 1, Len(p)) = p

RECURSIVE Concat(_)
\* the strings (or lists) of ss joined
Concat(ss) == IF ss = <<>> THEN <<>> ELSE Head(ss) \o Concat(Tail(ss))

\* str.replace(c, "") for a one-character c
Remove(s, c) == SelectSeq(s, LAMBDA x : x # c)

RECURSIVE SplitAt(_, _, _)
\* str.split(c) for a one-character separator c; cur is the piece being read
SplitAt(s, c, cur) ==
    IF s = <<>> THEN <<cur>>
    ELSE IF Head(s) = c THEN <<cur>> \o SplitAt(Tail(s), c, <<>>)
    ELSE SplitAt(Tail(s), c, Append(cur, Head(s)))

Split(s, c) == SplitAt(s, c, <<>>)

\* str.find(c) != -1 for a one-character c
Contains(s, c) == \E j \in 1..Len(s) : s[j] = c

Digits == {"0", "1", "2", "3", "4", "5", "6", "7", "8", "9"}

SpeakerChars ==
    {"A", "B", "C", "D", "E", "F", "G", "H", "I", "J", "K", "L", "M", "N", "O",
     "P", "Q", "R", "S", "T", "U", "V", "W", "X", "Y", "Z",
     "&Auml;", "&Ouml;", "&Uuml;", " ", "."}

\* speaker_pattern.match(s): a prefix of s is [A-Z...]+ followed by ":"
speaker_pattern(s) ==
    \E n \in 1..Len(s) :
        /\ n + 1 <= Len(s)
        /\ \A j \in 1..n : s[j] \in SpeakerChars
        /\ s[n + 1] = ":"

\* num_pattern.match(s): a prefix of s is \d+ "/" \d+
num_pattern(s) ==
    \E n \in 1..Len(s) :
        /\ n + 2 <= Len(s)
        /\ \A j \in 1..n : s[j] \in Digits
        /\ s[n + 1] = "/"
        /\ s[n + 2] \in Digits

Tab == "\t"
TakePrefix == <<"T", "a", "k", "e", " ">>
\* what re.split leaves of a "tc - (null)" token when split on a bare timecode
DashNull == <<" ", "-", " ", "(", "n", "u", "l", "l", ")">>
\* the text "(null)" as a timecode value
NullTc == 0

\* the list comprehension of lines 92 and 187
FilterLines(ls) ==
    SelectSeq(ls, LAMBDA j : j \notin {<<"&nbsp;">>, <<>>, <<"&nbsp;", " ">>})

Record(sp, dl, tn, st, en) ==
    [speaker |-> sp, dialogue |-> dl, take_num |-> tn, start |-> st, end |-> en]

-----------------------------------------------------------------------------
(* The inputs. *)

RECURSIVE SeqsUpTo(_, _)
\* all sequences over S of length at most n
SeqsUpTo(S, n) ==
    IF n = 0 THEN {<<>>}
    ELSE LET shorter == SeqsUpTo(S, n - 1)
         IN  shorter \cup {Append(s, x) : s \in {t \in shorter : Len(t) = n - 1}, x \in S}

\* A text holds bare timecodes and "tc - (null)" tokens, or range tokens only.
Texts ==
    SeqsUpTo({"tc", "null"}, MaxTc) \cup SeqsUpTo({"range", "null"}, MaxRanges)

\* no_table: document.tables is empty; blank_row: every cell of the first row
\* is blank; absent: the cell text does not occur in text; at_start: it occurs
\* at index 0; found: it occurs at a later index.
Anchors == {"no_table", "blank_row", "absent", "at_start", "found"}

\* lines of tabular segments
LnSpeaker == <<"A", ":">>
LnText == <<"x">>
LnNum == <<"1", "/", "2">>
LnTake == <<"T", "a", "k", "e", " ", "1">>

TabSegments ==
    { <<>>,
      <<LnTake, LnSpeaker, LnText, LnNum>>,
      <<LnText>>,
      <<LnNum>>,
      <<LnSpeaker>>,
      <<LnSpeaker, LnText>>,
      <<LnSpeaker, <<>>, LnText, <<"&nbsp;">>, LnNum>>,
      <<LnSpeaker, LnText, LnText>>,
      <<LnSpeaker, LnText, LnText, LnNum>>,
      <<LnSpeaker, LnText, LnSpeaker, LnText, LnNum>>,
      <<LnSpeaker, LnText, LnText, LnText>>,
      <<LnSpeaker, LnText, LnNum, LnSpeaker, LnText, LnText, LnText>>,
      <<LnSpeaker, LnText, LnNum, LnNum>> }

\* lines of takebar segments
LnTakeNo == <<"3">>
LnTakeNoMarked == <<"3", "&grave;", " ", "&lsaquo;">>
LnBlankNo == <<" ">>
LnName == <<"B">>
LnRow == <<"B", Tab, "x">>
LnCont == <<Tab, "y">>
LnCont2 == <<Tab, Tab, "y">>
LnLoneTab == <<Tab>>
LnDash == <<" ", "-", " ">>
ATAKE == <<"A", "-", "T", "A", "K", "E">>
KOPIERER == <<"K", "O", "P", "I", "E", "R", "E", "R">>
LnATake3 == ATAKE \o <<Tab, "B", Tab, "x">>
LnATake2 == ATAKE \o <<Tab, "x">>
LnKop3 == KOPIERER \o <<Tab, "B", Tab, "x">>
LnKop2 == KOPIERER \o <<Tab, "B">>

BarSegments ==
    { <<>>,
      <<LnTake>>,
      <<LnDash>>,
      <<LnTakeNo>>,
      <<LnTakeNoMarked, LnLoneTab, LnRow>>,
      <<LnBlankNo, LnRow>>,
      <<LnTakeNo, LnName>>,
      <<LnTakeNo, LnCont>>,
      <<LnTakeNo, LnRow, LnCont>>,
      <<LnTakeNo, LnATake3>>,
      <<LnTakeNo, LnATake2>>,
      <<LnTakeNo, LnATake3, LnCont>>,
      <<LnTakeNo, LnATake3, LnCont2, LnRow>>,
      <<LnTakeNo, LnKop3, LnCont2>>,
      <<LnTakeNo, LnKop2>>,
      <<LnTakeNo, LnRow, LnKop2, LnRow>> }

-----------------------------------------------------------------------------
(* parse_docx, lines 35-72. *)

\* lines 62 and 71
ErrorStatus == "Error: No timestamps found"

\* re.search(r"\d+:\d+:\d+:\d+", body_text) is not None
HasTimecode(toks) == Len(toks) > 0

\* re.search(r"\d+:\d+:\d+:\d+\s+-\s+\d+:\d+:\d+:\d+", body_text)
HasRange(toks) == \E j \in 1..Len(toks) : toks[j] = "range"

Init ==
    /\ pc = "parse_docx"
    /\ anchor \in Anchors
    /\ text \in Texts
    /\ cut \in 0..Len(text)
    /\ (anchor # "found" => cut = 0)
    /\ body_text = Unbound
    /\ success = TRUE
    /\ timestamps = <<>>
    /\ nseg = 0
    /\ k = 0
    /\ i = 0
    /\ m = <<>>
    /\ line = <<>>
    /\ start = 0
    /\ end = 0
    /\ speaker = Unbound
    /\ take_num = Unbound
    /\ in_kopierer = FALSE
    /\ in_atake = FALSE
    /\ data = <<>>
    /\ printed = 0
    /\ status = ""
    /\ res = <<>>
    /\ hasRes = FALSE
    /\ df = <<>>
    /\ row = 0

\* lines 44-60: tables[0] raises IndexError when the document has no table;
\* text.index raises (and is caught) when first_table_text is unbound or absent.
Locate ==
    /\ pc = "parse_docx"
    /\ IF anchor = "no_table"
       THEN pc' = "raised" /\ UNCHANGED <<body_text, success>>
       ELSE /\ pc' = "route"
            /\ IF anchor \in {"blank_row", "absent"}
               THEN success' = FALSE /\ UNCHANGED body_text
               ELSE /\ UNCHANGED success
                    /\ body_text' = IF anchor = "at_start"
                                    THEN <<>>   \* text[-1:], the last character
                                    ELSE From(text, cut)
    /\ UNCHANGED <<anchor, text, cut, timestamps, nseg, k, i, m, line, start,
                   end, speaker, take_num, in_kopierer, in_atake, data, printed,
                   status, res, hasRes, df, row>>

\* lines 61-66: reading the unbound body_text raises NameError
Route ==
    /\ pc = "route"
    /\ IF body_text = Unbound
       THEN pc' = "raised" /\ UNCHANGED <<status, hasRes>>
       ELSE IF ~HasTimecode(body_text)
       THEN pc' = "done" /\ status' = ErrorStatus /\ hasRes' = FALSE
       ELSE IF HasRange(body_text)
       THEN pc' = "parse_takebar_format" /\ UNCHANGED <<status, hasRes>>
       ELSE pc' = "parse_tabular_format" /\ UNCHANGED <<status, hasRes>>
    /\ UNCHANGED <<anchor, text, cut, body_text, success, timestamps, nseg, k, i,
                   m, line, start, end, speaker, take_num, in_kopierer, in_atake,
                   data, printed, res, df, row>>

\* lines 68-72, after the dialect parser has returned (status, data)
Return ==
    /\ pc = "returned"
    /\ pc' = "done"
    /\ IF status # "OK"
       THEN hasRes' = FALSE /\ UNCHANGED <<status, res>>
       ELSE IF ~success
       THEN status' = ErrorStatus /\ hasRes' = FALSE /\ UNCHANGED res
       ELSE hasRes' = TRUE /\ res' = data /\ UNCHANGED status
    /\ UNCHANGED <<anchor, text, cut, body_text, success, timestamps, nseg, k, i,
                   m, line, start, end, speaker, take_num, in_kopierer, in_atake,
                   data, printed, df, row>>

-----------------------------------------------------------------------------
(* parse_tabular_format, lines 75-161. *)

\* NoProgress with the comparison lost: the guard never sees the unchanged list
NoProgressNever(new_line, old_line) == FALSE

\* line 154: line == old_line
NoProgress(new_line, old_line) == new_line = old_line

\* TabNextI off by one: the index advances by one timecode, not by a pair
TabNextIByOne(idx) == idx + 1

\* line 100: i += 2
TabNextI(idx) == idx + 2

\* lines 102-156, one iteration of the while loop on the list ln, with the
\* locals speaker = sp and take_num = tn.  kind says how the iteration ends:
\* "continue" (next iteration), "break", or "raise" (an exception leaves
\* parse_tabular_format); emit holds the records appended to data.
TabIteration(ln, sp, tn, st, en) ==
    LET out(kind, emit, ln2, sp2, tn2, said) ==
            [kind |-> kind, emit |-> emit, line |-> ln2, speaker |-> sp2,
             take_num |-> tn2, said |-> said]
    IN
    IF ln = <<>> THEN out("break", <<>>, ln, sp, tn, FALSE)
    ELSE IF speaker_pattern(ln[1]) THEN
        LET sp2 == ButLast(ln[1]) IN
        IF Len(ln) < 2
        THEN out("raise", <<>>, ln, sp2, tn, FALSE)         \* line 120: line[1]
        ELSE IF 2 >= Len(ln)
        THEN IF tn = Unbound
             THEN out("raise", <<>>, ln, sp2, tn, FALSE)    \* line 126: take_num
             ELSE out("break", <<Record(sp2, ln[2], tn, st, en)>>, ln, sp2, tn, FALSE)
        ELSE
            LET cont == ~speaker_pattern(ln[3]) /\ ~num_pattern(ln[3])
                dialogue == IF cont THEN ln[2] \o ln[3] ELSE ln[2]
                next == IF cont THEN 3 ELSE 2
            IN
            IF next >= Len(ln) THEN out("break", <<>>, ln, sp2, tn, FALSE)
            ELSE
                LET isNum == num_pattern(ln[next + 1])
                    isSpeaker == speaker_pattern(ln[next + 1])
                    tn2 == IF isNum THEN ln[next + 1] ELSE tn
                    ln2 == IF isNum THEN From(ln, next + 1)
                           ELSE IF isSpeaker THEN From(ln, next)
                           ELSE ln
                IN
                IF tn2 = Unbound
                THEN out("raise", <<>>, ln2, sp2, tn2, FALSE)   \* line 149: take_num
                ELSE IF NoProgress(ln2, ln)
                THEN out("break", <<Record(sp2, dialogue, tn2, st, en)>>, ln2, sp2, tn2, TRUE)
                ELSE out("continue", <<Record(sp2, dialogue, tn2, st, en)>>, ln2, sp2, tn2, FALSE)
    ELSE IF num_pattern(ln[1])
    THEN out("break", <<Record(<<>>, <<>>, ln[1], st, en)>>, ln, sp, tn, FALSE)
    ELSE out("break", <<>>, ln, sp, tn, FALSE)

\* lines 85-89; each "tc" and each "tc - (null)" token holds one bare timecode
TabFindall ==
    /\ pc = "parse_tabular_format"
    /\ timestamps' = [j \in 1..Len(body_text) |-> j]
    /\ nseg' = Len(body_text) + 1
    /\ data' = <<>>
    /\ i' = 0
    /\ k' = 0
    /\ pc' = "tab_for"
    /\ UNCHANGED <<anchor, text, cut, body_text, success, m, line, start, end,
                   speaker, take_num, in_kopierer, in_atake, printed, status,
                   res, hasRes, df, row>>

\* lines 90-100, the head of one iteration of the for loop; the segment after
\* a "tc - (null)" token starts with the rest of that token
TabFor ==
    /\ pc = "tab_for"
    /\ k < nseg
    /\ \E seg \in TabSegments :
        LET mm == IF k >= 1 /\ body_text[k] = "null" THEN <<DashNull>> \o seg ELSE seg
            ln == FilterLines(mm)
        IN
        /\ m' = mm
        /\ line' = ln
        /\ IF ln = <<>> \/ StartsWith(ln[1], TakePrefix)
           THEN pc' = "tab_for" /\ k' = k + 1 /\ UNCHANGED <<i, start, end, status>>
           ELSE IF i >= Len(timestamps)
           THEN pc' = "returned" /\ status' = "OK" /\ UNCHANGED <<i, start, end, k>>
           ELSE IF i + 2 > Len(timestamps)
           THEN pc' = "raised" /\ UNCHANGED <<i, start, end, k, status>>   \* line 99
           ELSE /\ start' = timestamps[i + 1]
                /\ end' = timestamps[i + 2]
                /\ i' = TabNextI(i)
                /\ pc' = "tab_while"
                /\ UNCHANGED <<k, status>>
    /\ UNCHANGED <<anchor, text, cut, body_text, success, timestamps, nseg,
                   speaker, take_num, in_kopierer, in_atake, data, printed,
                   res, hasRes, df, row>>

\* lines 102-156, one iteration of the while loop
TabWhile ==
    /\ pc = "tab_while"
    /\ LET it == TabIteration(line, speaker, take_num, start, end) IN
        /\ data' = data \o it.emit
        /\ line' = it.line
        /\ speaker' = it.speaker
        /\ take_num' = it.take_num
        /\ printed' = IF it.said THEN printed + 1 ELSE printed
        /\ IF it.kind = "raise" THEN pc' = "raised" /\ UNCHANGED k
           ELSE IF it.kind = "break" THEN pc' = "tab_for" /\ k' = k + 1
           ELSE pc' = "tab_while" /\ UNCHANGED k
    /\ UNCHANGED <<anchor, text, cut, body_text, success, timestamps, nseg, i, m,
                   start, end, in_kopierer, in_atake, status, res, hasRes, df, row>>

\* line 161, the for loop exhausted
TabEnd ==
    /\ pc = "tab_for"
    /\ k = nseg
    /\ pc' = "returned"
    /\ status' = "OK"
    /\ UNCHANGED <<anchor, text, cut, body_text, success, timestamps, nseg, k, i,
                   m, line, start, end, speaker, take_num, in_kopierer, in_atake,
                   data, printed, res, hasRes, df, row>>

-----------------------------------------------------------------------------
(* parse_takebar_format, lines 164-279. *)

\* lines 175-179: the pair (a, b) of the j-th range token
RangePair(toks, j) == <<2 * j - 1, IF toks[j] = "null" THEN NullTc ELSE 2 * j>>

\* lines 219-220: the pair put on the record of a tab-less line
NamePair(ts, idx, t0, t1) == <<ts[idx + 1], ts[idx + 2]>>

\* line 231 and line 246: take_num = take_num + note
Annotate(tn) == tn \o <<"A">>

\* lines 199-267, one iteration of the while loop on the list ln.  kind is
\* "continue", "break" or "except" (an exception reaches line 268).
BarIteration(ln, sp, tn, kop, atk, t0, t1, ts, idx) ==
    LET out(kind, emit, ln2, sp2, tn2, kop2, atk2) ==
            [kind |-> kind, emit |-> emit, line |-> ln2, speaker |-> sp2,
             take_num |-> tn2, in_kopierer |-> kop2, in_atake |-> atk2]
    IN
    IF ln = <<>> THEN out("break", <<>>, ln, sp, tn, kop, atk)
    ELSE IF ln[1] = <<Tab>> THEN out("continue", <<>>, Tail(ln), sp, tn, kop, atk)
    ELSE IF ~Contains(ln[1], Tab) THEN
        IF idx + 2 > Len(ts)
        THEN out("except", <<>>, Tail(ln), ln[1], tn, kop, atk)   \* line 219
        ELSE LET p == NamePair(ts, idx, t0, t1) IN
             out("continue", <<Record(ln[1], <<>>, tn, p[1], p[2])>>,
                 Tail(ln), ln[1], tn, kop, atk)
    ELSE
        LET a0 == Split(ln[1], Tab)
            strip1 == kop /\ a0[1] = <<>>
            a1 == IF strip1 THEN Tail(a0) ELSE a0
            strip2 == atk /\ a1 # <<>> /\ a1[1] = <<>>
            a == IF strip2 THEN Tail(a1) ELSE a1
            tn1 == IF strip2 THEN Annotate(tn) ELSE tn
            done(sp2, dl, tn2, kop2, atk2) ==
                out("continue", <<Record(sp2, dl, tn2, t0, t1)>>, Tail(ln),
                    sp2, tn2, kop2, atk2)
            fail(sp2) == out("except", <<>>, ln, sp2, tn1, strip1, strip2)
        IN
        IF a = <<>> THEN fail(sp)
        ELSE IF a[1] = <<>> THEN
            IF Len(a) < 2 \/ sp = Unbound THEN fail(sp)     \* line 236, line 260
            ELSE done(sp, a[2], tn1, strip1, strip2)
        ELSE IF a[1] = ATAKE THEN
            IF Len(a) >= 3 THEN done(a[2], a[3], Annotate(tn1), strip1, TRUE)
            ELSE IF Len(a) = 2 THEN done(<<>>, a[2], Annotate(tn1), strip1, TRUE)
            ELSE fail(<<>>)                                 \* line 244
        ELSE IF a[1] = KOPIERER THEN
            IF Len(a) < 2 THEN fail(sp)                     \* line 249
            ELSE IF Len(a) < 3 THEN fail(a[2])              \* line 250
            ELSE done(a[2], a[3], tn1, TRUE, strip2)
        ELSE done(a[1], IF Len(a) > 1 THEN a[2] ELSE <<>>, tn1, strip1, strip2)

\* lines 175-183
BarFindall ==
    /\ pc = "parse_takebar_format"
    /\ timestamps' = Concat([j \in 1..Len(body_text) |-> RangePair(body_text, j)])
    /\ nseg' = Len(body_text) + 1
    /\ data' = <<>>
    /\ i' = 0
    /\ k' = 0
    /\ pc' = "bar_for"
    /\ UNCHANGED <<anchor, text, cut, body_text, success, m, line, start, end,
                   speaker, take_num, in_kopierer, in_atake, printed, status,
                   res, hasRes, df, row>>

\* lines 184-198, the head of one iteration of the for loop
BarFor ==
    /\ pc = "bar_for"
    /\ k < nseg
    /\ \E seg \in BarSegments :
        LET mm == [j \in 1..Len(seg) |-> Remove(seg[j], "&grave;")]
            ln == FilterLines(mm)
        IN
        /\ m' = mm
        /\ IF ln = <<>> \/ StartsWith(ln[1], TakePrefix) \/ ln = <<LnDash>>
           THEN /\ pc' = "bar_for" /\ k' = k + 1 /\ line' = ln
                /\ UNCHANGED <<i, start, end, status, take_num, in_kopierer, in_atake>>
           ELSE IF i >= Len(timestamps)
           THEN /\ pc' = "returned" /\ status' = "OK" /\ line' = ln
                /\ UNCHANGED <<i, start, end, k, take_num, in_kopierer, in_atake>>
           ELSE /\ start' = timestamps[i + 1]
                /\ end' = timestamps[i + 2]
                /\ i' = i + 2
                /\ in_kopierer' = FALSE
                /\ in_atake' = FALSE
                /\ take_num' = Remove(Remove(ln[1], " "), "&lsaquo;")
                /\ line' = Tail(ln)
                /\ pc' = "bar_while"
                /\ UNCHANGED <<k, status>>
    /\ UNCHANGED <<anchor, text, cut, body_text, success, timestamps, nseg,
                   speaker, data, printed, res, hasRes, df, row>>

\* lines 270-278: the record appended by the except clause
Sentinel(tn, t0, t1) == Record(<<>>, <<"E", "R", "R", "O", "R">>, tn, t0, t1)

\* lines 199-278, one iteration of the while loop, with the except clause
BarWhile ==
    /\ pc = "bar_while"
    /\ LET it == BarIteration(line, speaker, take_num, in_kopierer, in_atake,
                              start, end, timestamps, i)
       IN
        /\ line' = it.line
        /\ speaker' = it.speaker
        /\ take_num' = it.take_num
        /\ in_kopierer' = it.in_kopierer
        /\ in_atake' = it.in_atake
        /\ IF it.kind = "except"
           THEN /\ data' = Append(data, Sentinel(it.take_num, start, end))
                /\ printed' = printed + 1
                /\ pc' = "bar_for"
                /\ k' = k + 1
           ELSE /\ data' = data \o it.emit
                /\ UNCHANGED printed
                /\ IF it.kind = "break"
                   THEN pc' = "bar_for" /\ k' = k + 1
                   ELSE pc' = "bar_while" /\ UNCHANGED k
    /\ UNCHANGED <<anchor, text, cut, body_text, success, timestamps, nseg, i, m,
                   start, end, status, res, hasRes, df, row>>

\* line 279, the for loop exhausted
BarEnd ==
    /\ pc = "bar_for"
    /\ k = nseg
    /\ pc' = "returned"
    /\ status' = "OK"
    /\ UNCHANGED <<anchor, text, cut, body_text, success, timestamps, nseg, k, i,
                   m, line, start, end, speaker, take_num, in_kopierer, in_atake,
                   data, printed, res, hasRes, df, row>>

-----------------------------------------------------------------------------

Next ==
    \/ Locate
    \/ Route
    \/ Return
    \/ TabFindall
    \/ TabFor
    \/ TabWhile
    \/ TabEnd
    \/ BarFindall
    \/ BarFor
    \/ BarWhile
    \/ BarEnd

Spec == Init /\ [][Next]_vars

-----------------------------------------------------------------------------
(* adapt_data, lines 282-301, and replace_umlauts, lines 16-32. *)

\* vowel_char_map, lines 23-31
FoldChar(c) ==
    CASE c = "&auml;" -> <<"a", "e">>
      [] c = "&uuml;" -> <<"u", "e">>
      [] c = "&ouml;" -> <<"o", "e">>
      [] c = "&szlig;" -> <<"s", "s">>
      [] c = "&Auml;" -> <<"A", "E">>
      [] c = "&Uuml;" -> <<"U", "E">>
      [] c = "&Ouml;" -> <<"O", "E">>
      [] OTHER -> <<c>>

\* text.translate(vowel_char_map)
replace_umlauts(s) == Concat([j \in 1..Len(s) |-> FoldChar(s[j])])

LowerCase == <<"a", "b", "c", "d", "e", "f", "g", "h", "i", "j", "k", "l", "m",
               "n", "o", "p", "q", "r", "s", "t", "u", "v", "w", "x", "y", "z">>
UpperCase == <<"A", "B", "C", "D", "E", "F", "G", "H", "I", "J", "K", "L", "M",
               "N", "O", "P", "Q", "R", "S", "T", "U", "V", "W", "X", "Y", "Z">>

\* str.upper() on the characters left after folding
Upper(s) ==
    [j \in 1..Len(s) |->
        IF \E n \in 1..Len(LowerCase) : LowerCase[n] = s[j]
        THEN UpperCase[CHOOSE n \in 1..Len(LowerCase) : LowerCase[n] = s[j]]
        ELSE s[j]]

\* line 291: the annotation alphabet
Annotations == {"A", "a", "&Uuml;", "&uuml;"}

DigitSeq == <<"0", "1", "2", "3", "4", "5", "6", "7", "8", "9">>

\* int(s) raises ValueError unless s is a decimal literal
IsInt(s) == s # <<>> /\ \A j \in 1..Len(s) : s[j] \in Digits

RECURSIVE IntOf(_)
\* int(s) for a string of digits
IntOf(s) ==
    IF s = <<>> THEN 0
    ELSE 10 * IntOf(ButLast(s)) + (CHOOSE d \in 0..9 : DigitSeq[d + 1] = Last(s))

\* lines 291-293: Typ and the take_num left in df
Annotated(tn) == Last(tn) \in Annotations
TypOf(tn) == IF Annotated(tn) THEN replace_umlauts(<<Last(tn)>>) ELSE <<>>
Residual(tn) == IF Annotated(tn) THEN ButLast(tn) ELSE tn

\* lines 294-295
Fractional(tn) == Contains(tn, "/")
AfterSlash(tn) == Split(tn, "/")[2]

\* TakeNr is an integer (isInt, num) or a string (str)
StrTake(s) == [isInt |-> FALSE, str |-> s, num |-> 0]
IntTake(n) == [isInt |-> TRUE, str |-> <<>>, num |-> n]

\* lines 290-297 and the column order of lines 299-300, for one row
AdaptRecord(r) ==
    LET tn == Residual(r.take_num) IN
    [TakeNr |-> IF Fractional(tn) THEN IntTake(IntOf(AfterSlash(tn))) ELSE StrTake(tn),
     In |-> r.start,
     Out |-> r.end,
     Typ |-> TypOf(r.take_num),
     Rolle |-> Upper(replace_umlauts(r.speaker)),
     Text |-> replace_umlauts(r.dialogue)]

\* row["take_num"][-1] raises IndexError, int(...) raises ValueError
AdaptRaises(r) ==
    \/ r.take_num = <<>>
    \/ Fractional(Residual(r.take_num)) /\ ~IsInt(AfterSlash(Residual(r.take_num)))

\* raw records as the parsers build them
RawTakeNums ==
    { <<>>, <<"3">>, <<"3", "A">>, <<"3", "a">>, <<"3", "&Uuml;">>, <<"3", "&uuml;">>,
      <<"1", "/", "2">>, <<"1", "2", "/", "3">>, <<"1", "2", "/", "3", "A">>,
      <<"3", "/">>, <<"3", "A", "A">> }
RawSpeakers == { <<>>, <<"B">>, <<"M", "&uuml;", "l", "l", "e", "r", " ", "&Auml;">> }
RawDialogues == { <<>>, <<"E", "R", "R", "O", "R">>, <<"S", "t", "r", "a", "&szlig;", "e">> }
RawPairs == { <<1, 2>>, <<3, NullTc>> }

RawRecords ==
    { Record(sp, dl, tn, p[1], p[2]) :
        sp \in RawSpeakers, dl \in RawDialogues, tn \in RawTakeNums, p \in RawPairs }

\* adapt_data is called with a list the caller got from parse_docx
InitAdapt ==
    /\ pc = "adapt_data"
    /\ data \in SeqsUpTo(RawRecords, MaxRows) \ {<<>>}
    /\ df = <<>>
    /\ row = 0
    /\ anchor = "found"
    /\ text = <<>>
    /\ cut = 0
    /\ body_text = <<>>
    /\ success = TRUE
    /\ timestamps = <<>>
    /\ nseg = 0
    /\ k = 0
    /\ i = 0
    /\ m = <<>>
    /\ line = <<>>
    /\ start = 0
    /\ end = 0
    /\ speaker = Unbound
    /\ take_num = Unbound
    /\ in_kopierer = FALSE
    /\ in_atake = FALSE
    /\ printed = 0
    /\ status = "OK"
    /\ res = <<>>
    /\ hasRes = TRUE

\* lines 287-288
AdaptStart ==
    /\ pc = "adapt_data"
    /\ pc' = "adapt_for"
    /\ df' = <<>>
    /\ row' = 0
    /\ UNCHANGED data
    /\ UNCHANGED parseVars

\* lines 290-297, one iteration of the for loop
AdaptRow ==
    /\ pc = "adapt_for"
    /\ row < Len(data)
    /\ IF AdaptRaises(data[row + 1])
       THEN pc' = "raised" /\ UNCHANGED <<df, row>>
       ELSE /\ df' = Append(df, AdaptRecord(data[row + 1]))
            /\ row' = row + 1
            /\ pc' = "adapt_for"
    /\ UNCHANGED data
    /\ UNCHANGED parseVars

\* lines 299-301
AdaptReturn ==
    /\ pc = "adapt_for"
    /\ row = Len(data)
    /\ pc' = "adapt_done"
    /\ UNCHANGED <<data, df, row>>
    /\ UNCHANGED parseVars

NextAdapt ==
    \/ AdaptStart
    \/ AdaptRow
    \/ AdaptReturn

SpecAdapt == InitAdapt /\ [][NextAdapt]_vars

\* the scheduler runs the single thread until it returns or raises
FairSpec == Spec /\ WF_vars(Next)

-----------------------------------------------------------------------------
(* Properties. *)

\* body_text went to parse_tabular_format
Tabular == body_text # Unbound /\ HasTimecode(body_text) /\ ~HasRange(body_text)
InTabular == Tabular /\ pc \in {"tab_for", "tab_while", "returned", "done", "raised"}

\* the records appended to data by the step
Appended == [j \in 1..(Len(data') - Len(data)) |-> data'[Len(data) + j]]

\* C1: parse_docx returns ("OK", table) or ("Error: No timestamps found", None)
\* for every input, and no exception escapes to the caller.
C1_NeverRaises ==
    /\ pc # "raised"
    /\ pc = "done" =>
        \/ status = "OK" /\ hasRes
        \/ status = ErrorStatus /\ ~hasRes

\* C2 (as claimed): when parse_tabular_format returns, it has consumed exactly
\* N/2 timecode pairs of the N bare timecodes, and every record carries one of
\* the pairs (tokens 2q-1 and 2q), in non-decreasing document order.
C2_AllPairsConsumed ==
    (pc = "returned" /\ Tabular) =>
        /\ 2 * (i \div 2) = Len(timestamps)
        /\ i = Len(timestamps)

\* the pairs on the records of data are consumed pairs, in document order
PairsInOrder ==
    /\ \A j \in 1..Len(data) :
        \E q \in 1..(i \div 2) :
            data[j].start = timestamps[2 * q - 1] /\ data[j].end = timestamps[2 * q]
    /\ \A j \in 1..Len(data) : \A j2 \in j..Len(data) : data[j].start <= data[j2].start

\* C2 (amended): parse_tabular_format consumes one timecode pair for each
\* segment it does not skip and none otherwise, so at most N/2 pairs, pair q
\* being tokens 2q-1 and 2q; the pair of the segment being read is the last
\* one consumed, and every emitted record carries one of the consumed pairs,
\* in non-decreasing document order.
C2_PairsPerSegment ==
    /\ [](InTabular =>
            /\ i % 2 = 0
            /\ i <= Len(timestamps)
            /\ (pc = "tab_while" => start = timestamps[i - 1] /\ end = timestamps[i])
            /\ PairsInOrder)
    /\ [][InTabular =>
            IF pc = "tab_for" /\ pc' = "tab_while" THEN i' = i + 2 ELSE i' = i]_vars

\* C2 witness: a body of four bare timecodes of which one pair was consumed,
\* its record emitted, and the other pair left unconsumed.
C2_Witness ==
    /\ pc = "returned"
    /\ Tabular
    /\ Len(timestamps) = 4
    /\ i = 2
    /\ Len(data) >= 1
    /\ data[1].start = 1
    /\ data[1].end = 2

\* C3: every record emitted while a take segment is processed carries the
\* pair (t0, t1) assigned to that segment.
C3_SegmentPair ==
    [][pc = "bar_while" =>
        \A j \in 1..Len(Appended) : Appended[j].start = start /\ Appended[j].end = end]_vars

\* a take whose lines after the take number are lone tabs, speaker-only lines
\* and plain speaker/dialogue rows: well-formed whatever the block context
PlainTake(mm) ==
    \A j \in 2..Len(FilterLines(mm)) :
        LET l == FilterLines(mm)[j] IN
        \/ l = <<Tab>>
        \/ ~Contains(l, Tab)
        \/ Split(l, Tab)[1] \notin {<<>>, ATAKE, KOPIERER}

\* C4: a failure in one take appends exactly one sentinel record and the
\* parser goes on with the next segment; a well-formed take (wherever it
\* stands, the last one included) gets all its rows and no sentinel.
C4_SentinelOnlyForMalformed ==
    [][(pc = "bar_while" /\ printed' # printed) =>
        /\ Appended = <<Sentinel(take_num', start, end)>>
        /\ pc' = "bar_for"
        /\ k' = k + 1
        /\ ~PlainTake(m)]_vars

\* the take number of the segment m (line 197)
TakeNumOf(mm) == Remove(Remove(FilterLines(mm)[1], " "), "&lsaquo;")

\* C5: every record produced under an "A-TAKE" marker (the marker line and
\* the lines of its block) of a take numbered n, n without annotation, has
\* take_num n followed by one "A"; the normalizer gives TakeNr n and Typ "A".
C5_OneTrailingA ==
    [][(/\ pc = "bar_while"
        /\ in_atake'
        /\ printed' = printed
        /\ Appended # <<>>
        /\ TakeNumOf(m) # <<>>
        /\ ~Annotated(TakeNumOf(m))) =>
            \A j \in 1..Len(Appended) :
                /\ Appended[j].take_num = TakeNumOf(m) \o <<"A">>
                /\ Residual(Appended[j].take_num) = TakeNumOf(m)
                /\ TypOf(Appended[j].take_num) = <<"A">>]_vars

\* C6: when the anchor is not in the text, parse_docx parses the full text:
\* ("OK", table) if the text holds a timecode, the error pair otherwise.
C6_DegradesToFullText ==
    (anchor = "absent" /\ pc \in {"done", "raised"}) =>
        /\ pc = "done"
        /\ IF HasTimecode(text)
           THEN status = "OK" /\ hasRes
           ELSE status = ErrorStatus /\ ~hasRes

\* time_duration_pattern, lines 11-13: a range token of either form
HasAnyRange(toks) == \E j \in 1..Len(toks) : toks[j] \in {"range", "null"}

\* C7: a body with a timecode goes to the takebar parser iff it holds a range
\* token "tc - tc" or "tc - (null)", and to the tabular parser otherwise.
C7_RouteByRange ==
    /\ pc = "parse_takebar_format" => HasAnyRange(body_text)
    /\ pc = "parse_tabular_format" => ~HasAnyRange(body_text)

\* C8: adapt_data gives one row per raw record, in order, dropping none, for
\* every list of raw records (empty take_num included): In and Out are start
\* and end, a take_num neither annotated nor fractional passes unchanged, a
\* fractional one becomes the integer after the separator.
C8_OneRowPerRecord ==
    /\ pc # "raised"
    /\ pc = "adapt_done" =>
        /\ Len(df) = Len(data)
        /\ \A j \in 1..Len(data) :
            /\ df[j].In = data[j].start
            /\ df[j].Out = data[j].end
            /\ (data[j].take_num = <<>> \/
                (~Annotated(data[j].take_num) /\ ~Fractional(data[j].take_num)))
                    => df[j].TakeNr = StrTake(data[j].take_num)
            /\ Fractional(Residual(data[j].take_num))
                    => df[j].TakeNr = IntTake(IntOf(AfterSlash(Residual(data[j].take_num))))

Terminated == pc \in {"done", "raised"}

NumLinesOf(mm) == {FilterLines(mm)[j] : j \in {q \in 1..Len(FilterLines(mm)) : num_pattern(FilterLines(mm)[q])}}

\* C10: the take_num of every record parse_tabular_format emits is the text
\* of a take-number line of the segment the record comes from.
C10_TakeNumFromSegment ==
    [][pc = "tab_while" =>
        \A j \in 1..Len(Appended) : Appended[j].take_num \in NumLinesOf(m)]_vars

====
